---- MODULE Spec2Model ----
(***************************************************************************)
(* Model of graphql/src/runner.rs: the GraphQL runner of graph-node.       *)
(*                                                                         *)
(*   - ResultSizeMetrics::observe   (histogram + maximum gauge)            *)
(*   - GraphQlRunner::deployment_changed   (the consistency guard)         *)
(*   - GraphQlRunner::execute       (one store handle, admission gate,     *)
(*                                   partition loop, log, guard)           *)
(*                                                                         *)
(* The store, the load manager, the block resolver and the execution       *)
(* engine are collaborators: their answers are nondeterministic inputs of  *)
(* the steps that call them.  The deployment behind the store is a chain   *)
(* whose head advances and is reorganised while a call is in progress.     *)
(***************************************************************************)
EXTENDS Integers, Naturals, Sequences, FiniteSets, TLC

\* ------------------------------------------------------------------ bounds
MaxHead == 2        \* block numbers are 0..MaxHead
MaxReorgs == 2      \* the deployment's reorg_count is capped at MaxReorgs
MaxDepth == 2       \* the deployment's max_reorg_depth is one of 1..MaxDepth
MaxParts == 2       \* a query has 1..MaxParts block-constraint partitions
NumObservers == 2   \* the threads that call observe on the shared ResultSizeMetrics
MaxObserveCalls == 3 \* the observe calls made in all
MaxLimit == 2       \* a configured or passed limit is one of 1..MaxLimit

VARIABLES
    \* configuration
    allow_deployment_change,  \* ENV_VARS.graphql.allow_deployment_change
    \* the deployment as the store reports it
    head,                     \* latest_ethereum_block_number
    reorg_count,
    max_reorg_depth,
    \* one execute call
    pc,                       \* the call's position
    store,                    \* the QueryStore handle of the call, 0 before query_store
    state,                    \* the baseline DeploymentState
    by_block_constraint,      \* the number of partitions of the query
    idx,                      \* the partition the loop is at
    max_block,
    resolver,                 \* the block number of the current partition's resolver
    result,                   \* the merged QueryResults
    ret,                      \* what execute returned
    \* history of the call
    new_state,                \* what the guard's deployment_state() answered
    guard_answer,             \* what deployment_changed answered, "none" before it ran
    calls,                    \* the collaborator calls made so far, in order
    engine_log,               \* what the engine returned, invocation by invocation
    observed,                 \* the block numbers the partitions were resolved to
    reverted,                 \* the blocks reverted since the baseline capture
    \* the shared ResultSizeMetrics
    histogram,                \* query_result_size
    max_gauge,                \* query_result_max
    \* the observe call of each thread
    opc,                      \* its position
    osize,                    \* its size, as f64
    oseen,                    \* what max_gauge.get() returned to it
    \* history of the observe calls
    passed,                   \* the sizes passed to observe so far
    olog,                     \* the sizes passed, call by call in starting order
    osnap,                    \* the metrics as the latest call found them
    \* the limits of one query, from the entry point to their use in execute
    env_vars,                 \* ENV_VARS.graphql: the configured limits
    entry,                    \* the entry point called
    limits,                   \* max_complexity, max_depth, max_first, max_skip as passed
    enforced,                 \* the limits Query::new and the engine are given
    lpc                       \* the position on that path

vars == <<allow_deployment_change, head, reorg_count, max_reorg_depth, pc, store,
          state, by_block_constraint, idx, max_block, resolver, result, ret,
          new_state, guard_answer, calls, engine_log, observed, reverted,
          histogram, max_gauge, opc, osize, oseen, passed, olog, osnap,
          env_vars, entry, limits, enforced, lpc>>

limitVars == <<env_vars, entry, limits, enforced, lpc>>

metricsVars == <<histogram, max_gauge, opc, osize, oseen, passed, olog, osnap>>

executeVars == <<allow_deployment_change, head, reorg_count, max_reorg_depth, pc, store,
                 state, by_block_constraint, idx, max_block, resolver, result, ret,
                 new_state, guard_answer, calls, engine_log, observed, reverted>>

chainVars == <<head, reorg_count, max_reorg_depth>>
callVars == <<store, state, by_block_constraint, idx, max_block, resolver, result,
              new_state, guard_answer, engine_log, observed>>

\* ------------------------------------------------------------------ values
Max(a, b) == IF a >= b THEN a ELSE b

BlockNumbers == 0..MaxHead

DeploymentState(rc, depth, latest) ==
    [reorg_count |-> rc, max_reorg_depth |-> depth, latest_ethereum_block_number |-> latest]

NoState == DeploymentState(0, 0, 0)

\* What store.deployment_state() answers: the state, or a store error.
FetchError == [reorg_count |-> -1, max_reorg_depth |-> -1, latest_ethereum_block_number |-> -1]

\* A block constraint: a given block number, or the latest block.
BlockConstraints ==
    {[kind |-> "latest", n |-> 0]} \cup {[kind |-> "number", n |-> b] : b \in BlockNumbers}

\* One QueryResult: the output of the engine for the selection set of partition
\* sel, or (sel = 0) the result QueryResults::from builds from an error.
QueryResult(sel, out) == [sel |-> sel, out |-> out]

QueryResultsFrom(err) == <<QueryResult(0, err)>>

EngineOutcomes == {"data", "errors"}

Returned(tag, val) == [tag |-> tag, val |-> val]

NotReturned == Returned("none", <<>>)

\* One entry of the call history: the collaborator call and its argument (the
\* store handle it went through; for log_execution, the block logged).
Call(op, arg) == [op |-> op, arg |-> arg]

\* ------------------------------------------------------------------ ResultSizeMetrics
Observers == 1..NumObservers

\* The sizes passed to observe: below, at and above the first bucket
\* boundaries, and one far above.
Sizes == {0, 1024, 1025, 70000}

\* runner.rs:31  bins = (10..32).map(|n| 2u64.pow(n) as f64): the upper bounds
\* of the buckets are 2^10 .. 2^31; the bucket past the last is +Inf.
BinExponents == 10..31

InfBucket == 32

\* size <= 2^n, written so that 2^31 is never computed.
FitsBin(size, n) == (size + 1) \div 2 <= 2 ^ (n - 1)

\* The bucket an observation is counted in: the first whose bound holds it.
Bucket(size) ==
    IF \E n \in BinExponents : FitsBin(size, n)
    THEN CHOOSE n \in BinExponents :
             FitsBin(size, n) /\ \A k \in BinExponents : FitsBin(size, k) => n <= k
    ELSE InfBucket

\* runner.rs:61  size as f64: exact below 2^53; every size of Sizes is.
AsF64(size) == size

\* runner.rs:29-52: an empty histogram and a gauge at 0.
NewMetricsHistogram ==
    [buckets |-> [n \in BinExponents \cup {InfBucket} |-> 0], count |-> 0, sum |-> 0]

\* HistogramObserved with the bucket left as it was.
HistogramObservedCountOnly(h, v) ==
    [buckets |-> h.buckets, count |-> h.count + 1, sum |-> h.sum + v]

\* Histogram::observe: one atomic update of the bucket, the count and the sum.
HistogramObserved(h, v) ==
    [buckets |-> [h.buckets EXCEPT ![Bucket(v)] = @ + 1],
     count |-> h.count + 1,
     sum |-> h.sum + v]

ObserveCallsStarted == histogram.count

\* The state of a ResultSizeMetrics (runner.rs:23-26).
Metrics(h, g) == [histogram |-> h, max_gauge |-> g]

\* No observe call is between its first and its last step.
Quiescent == \A t \in Observers : opc[t] = "idle"

\* runner.rs:60-62: the call starts and records the size in the histogram.
ObserveHistogram(t) ==
    /\ opc[t] = "idle"
    /\ ObserveCallsStarted < MaxObserveCalls
    /\ \E size \in Sizes :
          /\ osize' = [osize EXCEPT ![t] = AsF64(size)]
          /\ histogram' = HistogramObserved(histogram, AsF64(size))
          /\ passed' = passed \cup {size}
          /\ olog' = Append(olog, size)
    /\ osnap' = Metrics(histogram, max_gauge)
    /\ opc' = [opc EXCEPT ![t] = "get"]
    /\ UNCHANGED <<max_gauge, oseen>>
    /\ UNCHANGED <<executeVars, limitVars>>

\* runner.rs:63  self.max_gauge.get() < size
GaugeBelowOrEqual(seen, size) == seen <= size

\* The comparison of runner.rs:63 the other way round.
GaugeAbove(seen, size) == seen > size

GaugeBelow(seen, size) == seen < size

ObserveGet(t) ==
    /\ opc[t] = "get"
    /\ oseen' = [oseen EXCEPT ![t] = max_gauge]
    /\ opc' = [opc EXCEPT ![t] = IF GaugeBelow(max_gauge, osize[t]) THEN "set" ELSE "idle"]
    /\ UNCHANGED <<histogram, max_gauge, osize, passed, olog, osnap>>
    /\ UNCHANGED <<executeVars, limitVars>>

\* runner.rs:64  self.max_gauge.set(size)
ObserveSet(t) ==
    /\ opc[t] = "set"
    /\ max_gauge' = osize[t]
    /\ opc' = [opc EXCEPT ![t] = "idle"]
    /\ UNCHANGED <<histogram, osize, oseen, passed, olog, osnap>>
    /\ UNCHANGED <<executeVars, limitVars>>

InitMetrics ==
    /\ histogram = NewMetricsHistogram
    /\ max_gauge = 0
    /\ opc = [t \in Observers |-> "idle"]
    /\ osize = [t \in Observers |-> 0]
    /\ oseen = [t \in Observers |-> 0]
    /\ passed = {}
    /\ olog = <<>>
    /\ osnap = Metrics(NewMetricsHistogram, 0)

\* ------------------------------------------------------------------ the guard
\* runner.rs:122  assert!(new_state.reorg_count >= state.reorg_count)
AssertRemoved(nstate, old) == TRUE

ReorgCountAssert(nstate, old) == nstate.reorg_count >= old.reorg_count

\* runner.rs:123  if new_state.reorg_count > state.reorg_count
ReorgHappenedOrEqual(nstate, old) == nstate.reorg_count >= old.reorg_count

ReorgHappened(nstate, old) == nstate.reorg_count > old.reorg_count

\* runner.rs:130
NBlocksOneReorg(nstate, old) == nstate.max_reorg_depth

NBlocks(nstate, old) ==
    nstate.max_reorg_depth * (nstate.reorg_count - old.reorg_count)

\* runner.rs:131
BeyondSafeWindowStrict(latest_block, n_blocks, old) ==
    latest_block + n_blocks >= old.latest_ethereum_block_number

BeyondSafeWindow(latest_block, n_blocks, old) ==
    latest_block + n_blocks > old.latest_ethereum_block_number
\* EarlyReturn with the flag not looked at.
EarlyReturnNever(allow) == FALSE

\* runner.rs:118-120: with allow_deployment_change set the guard returns
\* Ok(()) at once.
EarlyReturn(allow) == allow

\* deployment_changed, given what store.deployment_state() answers when asked.
\* "Ok" is Ok(()), "DeploymentReverted" and "StoreError" are the Err values,
\* "panic" is the failed assertion.
deployment_changed(allow, fetched, old, latest_block) ==
    IF EarlyReturn(allow) THEN "Ok"
    ELSE IF fetched = FetchError THEN "StoreError"
    ELSE IF ~ReorgCountAssert(fetched, old) THEN "panic"
    ELSE IF ReorgHappened(fetched, old)
              /\ BeyondSafeWindow(latest_block, NBlocks(fetched, old), old)
         THEN "DeploymentReverted"
    ELSE "Ok"

\* ------------------------------------------------------------------ the chain
CurrentState == DeploymentState(reorg_count, max_reorg_depth, head)

\* The baseline has been captured and the guard has not yet fetched the post state.
Tracking == pc \in {"api_schema", "query_new", "decide", "block_constraint",
                    "at_block", "execute_query", "log_execution", "deployment_changed"}

InProgress == pc \notin {"done", "panicked"}

AdvanceHead ==
    /\ InProgress
    /\ head < MaxHead
    /\ head' = head + 1
    /\ UNCHANGED <<metricsVars, limitVars, allow_deployment_change, reorg_count, max_reorg_depth, pc, ret,
                   calls, reverted>>
    /\ UNCHANGED callVars

Reorg ==
    /\ InProgress
    /\ reorg_count < MaxReorgs
    /\ \E d \in 1..max_reorg_depth :
          /\ d <= head
          /\ head' = head - d
          /\ reverted' = IF Tracking THEN reverted \cup ((head - d + 1)..head) ELSE reverted
    /\ reorg_count' = reorg_count + 1
    /\ UNCHANGED <<metricsVars, limitVars, allow_deployment_change, max_reorg_depth, pc, ret, calls>>
    /\ UNCHANGED callVars

\* ------------------------------------------------------------------ execute
\* Fail with the failure unwound as a panic instead of returned.
FailPanicking(err) ==
    /\ pc' = "panicked"
    /\ ret' = Returned("panic", <<>>)

\* An early return through `?`: execute returns Err(QueryResults::from(err)).
Fail(err) ==
    /\ pc' = "done"
    /\ ret' = Returned("Err", QueryResultsFrom(err))

\* Every query_store call hands out a handle of its own: the handles are
\* numbered in the order they are acquired.
NewHandle == Cardinality({i \in 1..Len(calls) : calls[i].op = "query_store"}) + 1

\* runner.rs:158
QueryStore ==
    /\ pc = "query_store"
    /\ \/ /\ store' = NewHandle
          /\ calls' = Append(calls, Call("query_store", NewHandle))
          /\ pc' = "deployment_state"
          /\ UNCHANGED ret
       \/ /\ Fail("StoreError")
          /\ calls' = Append(calls, Call("query_store", 0))
          /\ UNCHANGED store
    /\ UNCHANGED <<metricsVars, limitVars, allow_deployment_change, state, by_block_constraint, idx, max_block,
                   resolver, result, new_state, guard_answer, engine_log, observed, reverted>>
    /\ UNCHANGED chainVars

\* runner.rs:159; the test-only override of lines 163-169 is never installed by
\* the program (INITIAL_DEPLOYMENT_STATE_FOR_TESTS stays None), so unwrap_or
\* keeps the state read from the store.
BaselineState ==
    /\ pc = "deployment_state"
    /\ calls' = Append(calls, Call("deployment_state", store))
    /\ \/ /\ state' = CurrentState
          /\ reverted' = {}
          /\ pc' = "api_schema"
          /\ UNCHANGED ret
       \/ /\ Fail("StoreError")
          /\ UNCHANGED <<state, reverted>>
    /\ UNCHANGED <<metricsVars, limitVars, allow_deployment_change, store, by_block_constraint, idx,
                   max_block, resolver, result, new_state, guard_answer, engine_log,
                   observed>>
    /\ UNCHANGED chainVars

\* runner.rs:160-161
ApiSchema ==
    /\ pc = "api_schema"
    /\ calls' = Append(calls, Call("api_schema", store))
    /\ \/ pc' = "query_new" /\ UNCHANGED ret
       \/ Fail("SchemaError")
    /\ UNCHANGED <<metricsVars, limitVars, allow_deployment_change, reverted>>
    /\ UNCHANGED callVars
    /\ UNCHANGED chainVars

\* runner.rs:171-179
QueryNew ==
    /\ pc = "query_new"
    /\ \/ pc' = "decide" /\ UNCHANGED ret
       \/ Fail("ValidationError")
    /\ UNCHANGED <<metricsVars, limitVars, allow_deployment_change, calls, reverted>>
    /\ UNCHANGED callVars
    /\ UNCHANGED chainVars

\* Decide with the rejection dropped: the result of to_result() is not propagated.
DecideIgnoringRejection ==
    /\ pc = "decide"
    /\ \/ /\ calls' = calls \o <<Call("wait_stats", store), Call("decide_proceed", 0)>>
          /\ pc' = "block_constraint"
          /\ UNCHANGED ret
       \/ /\ calls' = calls \o <<Call("wait_stats", store), Call("decide_reject", 0)>>
          /\ pc' = "block_constraint"
          /\ UNCHANGED ret
       \/ /\ calls' = Append(calls, Call("wait_stats", store))
          /\ Fail("StoreError")
    /\ UNCHANGED <<metricsVars, limitVars, allow_deployment_change, reverted>>
    /\ UNCHANGED callVars
    /\ UNCHANGED chainVars

\* runner.rs:180-186
Decide ==
    /\ pc = "decide"
    /\ \/ /\ calls' = calls \o <<Call("wait_stats", store), Call("decide_proceed", 0)>>
          /\ pc' = "block_constraint"
          /\ UNCHANGED ret
       \/ /\ calls' = calls \o <<Call("wait_stats", store), Call("decide_reject", 0)>>
          /\ Fail("TooExpensive")
       \/ /\ calls' = Append(calls, Call("wait_stats", store))
          /\ Fail("StoreError")
    /\ UNCHANGED <<metricsVars, limitVars, allow_deployment_change, reverted>>
    /\ UNCHANGED callVars
    /\ UNCHANGED chainVars

\* runner.rs:187-189; block_constraint() yields at least one partition
\* (runner.rs:191).  The model keeps the number of partitions; the constraint
\* of each partition is read when the loop reaches it.
BlockConstraint ==
    /\ pc = "block_constraint"
    /\ \/ /\ \E n \in 1..MaxParts : by_block_constraint' = n
          /\ max_block' = 0
          /\ result' = <<>>
          /\ idx' = 1
          /\ pc' = "at_block"
          /\ UNCHANGED ret
       \/ /\ Fail("ValidationError")
          /\ UNCHANGED <<by_block_constraint, max_block, result, idx>>
    /\ UNCHANGED <<metricsVars, limitVars, allow_deployment_change, store, state, resolver, new_state,
                   guard_answer,
                   calls, engine_log, observed, reverted>>
    /\ UNCHANGED chainVars

\* StoreResolver::at_block resolves a constraint against the deployment: the
\* latest block is the head, a given block must have been indexed.
Resolvable(bc) == bc.kind = "latest" \/ bc.n <= head

ResolvedBlock(bc) == IF bc.kind = "latest" THEN head ELSE bc.n

\* runner.rs:203
NewMaxBlockLast(old_max, block_number) == block_number

NewMaxBlock(old_max, block_number) == Max(old_max, block_number)

\* runner.rs:202  `.await?`: the error alone becomes the returned QueryResults.
ResolutionFailureKeepingResults(res, err) == res \o QueryResultsFrom(err)

ResolutionFailure(res, err) == QueryResultsFrom(err)

\* runner.rs:193-203
AtBlock ==
    /\ pc = "at_block"
    /\ calls' = Append(calls, Call("at_block", store))
    /\ \/ /\ \E bc \in BlockConstraints :
                /\ Resolvable(bc)
                /\ resolver' = ResolvedBlock(bc)
                /\ max_block' = NewMaxBlock(max_block, ResolvedBlock(bc))
                /\ observed' = observed \cup {ResolvedBlock(bc)}
          /\ pc' = "execute_query"
          /\ UNCHANGED ret
       \/ /\ pc' = "done"
          /\ ret' = Returned("Err", ResolutionFailure(result, "BlockNotResolved"))
          /\ UNCHANGED <<max_block, resolver, observed>>
    /\ UNCHANGED <<metricsVars, limitVars, allow_deployment_change, store, state, by_block_constraint,
                   idx, result, new_state, guard_answer, engine_log, reverted>>
    /\ UNCHANGED chainVars

\* runner.rs:217  result.append(query_res)
AppendReplacing(res, query_res) == <<query_res>>

AppendResult(res, query_res) == Append(res, query_res)

\* LoopStep leaving the loop when the engine returned errors.
LoopStepStoppingOnErrors(out, i, n) ==
    IF out = "errors" THEN "log_execution"
    ELSE IF i < n THEN "at_block" ELSE "log_execution"

\* LoopStep leaving the loop one partition early.
LoopStepOneShort(out, i, n) == IF i + 1 < n THEN "at_block" ELSE "log_execution"

\* Where the for loop goes after partition i of n (runner.rs:192-218): to the
\* next partition, or past the loop after the last one; what the engine
\* returned plays no part.
LoopStep(out, i, n) == IF i < n THEN "at_block" ELSE "log_execution"

\* runner.rs:204-218; the engine reads the store through the resolver, which
\* holds the call's handle and is moved into the engine's options.
ExecuteQuery ==
    /\ pc = "execute_query"
    /\ calls' = Append(calls, Call("execute_query", store))
    /\ \E out \in EngineOutcomes :
          /\ result' = AppendResult(result, QueryResult(idx, out))
          /\ engine_log' = Append(engine_log, QueryResult(idx, out))
          /\ pc' = LoopStep(out, idx, by_block_constraint)
    /\ resolver' = 0
    /\ idx' = idx + 1
    /\ UNCHANGED <<metricsVars, limitVars, allow_deployment_change, store, state, by_block_constraint,
                   max_block, ret, new_state, guard_answer, observed, reverted>>
    /\ UNCHANGED chainVars

\* LogExecution with the log_execution call left out.
LogExecutionSkipped ==
    /\ pc = "log_execution"
    /\ pc' = "deployment_changed"
    /\ UNCHANGED <<metricsVars, limitVars, allow_deployment_change, ret, calls, reverted>>
    /\ UNCHANGED callVars
    /\ UNCHANGED chainVars

\* runner.rs:220
LogExecution ==
    /\ pc = "log_execution"
    /\ calls' = Append(calls, Call("log_execution", max_block))
    /\ pc' = "deployment_changed"
    /\ UNCHANGED <<metricsVars, limitVars, allow_deployment_change, ret, reverted>>
    /\ UNCHANGED callVars
    /\ UNCHANGED chainVars

\* GuardReturn with the guard's error added to the merged result.
GuardReturnKeepingData(answer, res) ==
    IF answer = "Ok" THEN Returned("Ok", res)
    ELSE IF answer = "panic" THEN Returned("panic", <<>>)
    ELSE Returned("Err", res \o QueryResultsFrom(answer))

\* What execute returns for the guard's answer (runner.rs:221-224).
GuardReturn(answer, res) ==
    IF answer = "Ok" THEN Returned("Ok", res)
    ELSE IF answer = "panic" THEN Returned("panic", <<>>)
    ELSE Returned("Err", QueryResultsFrom(answer))

\* The handle the guard reads the post state through: the call's own
\* (runner.rs:221 passes store.as_ref()).
GuardStoreReacquired == NewHandle

GuardStore == store

\* runner.rs:221-224 with deployment_changed (runner.rs:112-136) inlined: the
\* post state is fetched only when allow_deployment_change is unset.
DeploymentChanged ==
    /\ pc = "deployment_changed"
    /\ \/ /\ EarlyReturn(allow_deployment_change)
          /\ guard_answer' = deployment_changed(allow_deployment_change, NoState,
                                                state, max_block)
          /\ UNCHANGED <<calls, new_state>>
       \/ /\ ~EarlyReturn(allow_deployment_change)
          /\ calls' = IF GuardStore = store
                       THEN Append(calls, Call("deployment_state", store))
                       ELSE calls \o <<Call("query_store", GuardStore),
                                       Call("deployment_state", GuardStore)>>
          /\ \E fetched \in {CurrentState, FetchError} :
                /\ new_state' = fetched
                /\ guard_answer' = deployment_changed(allow_deployment_change, fetched,
                                                      state, max_block)
    /\ ret' = GuardReturn(guard_answer', result)
    /\ pc' = IF guard_answer' = "panic" THEN "panicked" ELSE "done"
    /\ UNCHANGED <<metricsVars, limitVars, allow_deployment_change, store, state, by_block_constraint,
                   idx, max_block, resolver, result, engine_log, observed, reverted>>
    /\ UNCHANGED chainVars

\* ------------------------------------------------------------------ run_subscription
\* SubscriptionError::GraphQLError(vec![err]) (runner.rs:294)
GraphQLError(err) == <<"GraphQLError", err>>

\* The SubscriptionError a `?` in run_subscription converts err into.
SubscriptionErrorFrom(err) == <<"From", err>>

\* What execute_prepared_subscription answers: a result stream or an error.
SubscriptionOutcomes == {"stream", "SubscriptionError"}

\* An early return through `?`.
SubFail(err) ==
    /\ pc' = "done"
    /\ ret' = Returned("Err", SubscriptionErrorFrom(err))

\* runner.rs:273, query_store(target, true)
SubQueryStore ==
    /\ pc = "sub_query_store"
    /\ \/ /\ calls' = Append(calls, Call("query_store", NewHandle))
          /\ store' = NewHandle
          /\ pc' = "sub_api_schema"
          /\ UNCHANGED ret
       \/ /\ calls' = Append(calls, Call("query_store", 0))
          /\ SubFail("StoreError")
          /\ UNCHANGED store
    /\ UNCHANGED <<metricsVars, limitVars, allow_deployment_change, state, by_block_constraint,
                   idx, max_block, resolver, result, new_state, guard_answer,
                   engine_log, observed, reverted>>
    /\ UNCHANGED chainVars

\* runner.rs:274-275
SubApiSchema ==
    /\ pc = "sub_api_schema"
    /\ \/ pc' = "sub_query_new" /\ UNCHANGED ret
       \/ SubFail("SchemaError")
    /\ UNCHANGED <<metricsVars, limitVars, allow_deployment_change, calls, reverted>>
    /\ UNCHANGED callVars
    /\ UNCHANGED chainVars

\* runner.rs:277-284
SubQueryNew ==
    /\ pc = "sub_query_new"
    /\ \/ pc' = "sub_decide" /\ UNCHANGED ret
       \/ SubFail("ValidationError")
    /\ UNCHANGED <<metricsVars, limitVars, allow_deployment_change, calls, reverted>>
    /\ UNCHANGED callVars
    /\ UNCHANGED chainVars

\* SubDecide with the controller's rejection not acted on.
SubDecideIgnoringRejection ==
    /\ pc = "sub_decide"
    /\ \/ /\ calls' = calls \o <<Call("wait_stats", store), Call("decide_proceed", 0)>>
          /\ pc' = "sub_execute"
          /\ UNCHANGED ret
       \/ /\ calls' = calls \o <<Call("wait_stats", store), Call("decide_reject", 0)>>
          /\ pc' = "sub_execute"
          /\ UNCHANGED ret
       \/ /\ calls' = Append(calls, Call("wait_stats", store))
          /\ SubFail("StoreError")
    /\ UNCHANGED <<metricsVars, limitVars, allow_deployment_change, reverted>>
    /\ UNCHANGED callVars
    /\ UNCHANGED chainVars

\* runner.rs:286-296
SubDecide ==
    /\ pc = "sub_decide"
    /\ \/ /\ calls' = calls \o <<Call("wait_stats", store), Call("decide_proceed", 0)>>
          /\ pc' = "sub_execute"
          /\ UNCHANGED ret
       \/ /\ calls' = calls \o <<Call("wait_stats", store), Call("decide_reject", 0)>>
          /\ pc' = "done"
          /\ ret' = Returned("Err", GraphQLError("TooExpensive"))
       \/ /\ calls' = Append(calls, Call("wait_stats", store))
          /\ SubFail("StoreError")
    /\ UNCHANGED <<metricsVars, limitVars, allow_deployment_change, reverted>>
    /\ UNCHANGED callVars
    /\ UNCHANGED chainVars

\* runner.rs:298-311
SubExecute ==
    /\ pc = "sub_execute"
    /\ calls' = Append(calls, Call("execute_prepared_subscription", store))
    /\ \E out \in SubscriptionOutcomes :
          ret' = IF out = "stream" THEN Returned("Ok", <<out>>)
                 ELSE Returned("Err", <<out>>)
    /\ pc' = "done"
    /\ UNCHANGED <<metricsVars, limitVars, allow_deployment_change, reverted>>
    /\ UNCHANGED callVars
    /\ UNCHANGED chainVars

\* ------------------------------------------------------------------ query limits
\* Option<T>: None, or Some(x) written x.
None == -1

unwrap_or(opt, default) == IF opt = None THEN default ELSE opt

LimitValues == 1..MaxLimit
OptionalLimits == {None} \cup LimitValues

Limits(complexity, depth, first, skip) ==
    [max_complexity |-> complexity, max_depth |-> depth,
     max_first |-> first, max_skip |-> skip]

NoLimits == Limits(None, None, None, None)

\* ENV_VARS.graphql: max_complexity is an Option, the other three are values.
EnvVars ==
    {Limits(c, d, f, s) : c \in OptionalLimits, d \in LimitValues,
                          f \in LimitValues, s \in LimitValues}

\* run_query (runner.rs:234-244) calls run_query_with_complexity with the
\* configured limits.
RunQueryLimits(env) ==
    Limits(env.max_complexity, env.max_depth, env.max_first, env.max_skip)

RunQuery ==
    /\ lpc = "entry"
    /\ entry' = "run_query"
    /\ limits' = RunQueryLimits(env_vars)
    /\ lpc' = "query_new"
    /\ UNCHANGED <<env_vars, enforced, executeVars, metricsVars>>

\* run_query_with_complexity (runner.rs:246-266) hands its four optional
\* limits to execute as they are.
RunQueryWithComplexity ==
    /\ lpc = "entry"
    /\ entry' = "run_query_with_complexity"
    /\ \E c \in OptionalLimits, d \in OptionalLimits,
          f \in OptionalLimits, s \in OptionalLimits :
          limits' = Limits(c, d, f, s)
    /\ lpc' = "query_new"
    /\ UNCHANGED <<env_vars, enforced, executeVars, metricsVars>>

\* run_query_with_complexity returns execute(..).await.unwrap_or_else(|e| e)
\* (runner.rs:255-265): the QueryResults of either arm.
unwrap_or_else(r) == r.val

\* execute gives Query::new its max_complexity argument itself (runner.rs:177).
MaxComplexity(max_complexity, env) == max_complexity

\* runner.rs:171
MaxDepthOf(max_depth, env) == unwrap_or(max_depth, env.max_depth)

\* runner.rs:211
MaxFirst(max_first, env) == unwrap_or(max_first, env.max_first)

\* runner.rs:212
MaxSkip(max_skip, env) == unwrap_or(max_skip, env.max_skip)

\* What a call with the given limits enforces (runner.rs:171-179, 208-214).
Enforced(lim, env) ==
    Limits(MaxComplexity(lim.max_complexity, env), MaxDepthOf(lim.max_depth, env),
           MaxFirst(lim.max_first, env), MaxSkip(lim.max_skip, env))

\* execute, runner.rs:171-179: the limits Query::new validates against.
QueryNewLimits ==
    /\ lpc = "query_new"
    /\ enforced' = [enforced EXCEPT
                       !.max_complexity = MaxComplexity(limits.max_complexity, env_vars),
                       !.max_depth = MaxDepthOf(limits.max_depth, env_vars)]
    /\ lpc' = "execute_query"
    /\ UNCHANGED <<env_vars, entry, limits, executeVars, metricsVars>>

\* execute, runner.rs:208-214: the limits in the engine's options.
ExecuteQueryLimits ==
    /\ lpc = "execute_query"
    /\ enforced' = [enforced EXCEPT
                       !.max_first = MaxFirst(limits.max_first, env_vars),
                       !.max_skip = MaxSkip(limits.max_skip, env_vars)]
    /\ lpc' = "done"
    /\ UNCHANGED <<env_vars, entry, limits, executeVars, metricsVars>>

\* No query on the limits path.
LimitsIdle ==
    /\ env_vars = Limits(None, 1, 1, 1)
    /\ entry = "none"
    /\ limits = NoLimits
    /\ enforced = NoLimits
    /\ lpc = "idle"

\* ------------------------------------------------------------------ specification
Init ==
    /\ allow_deployment_change \in BOOLEAN
    /\ head \in BlockNumbers
    /\ reorg_count = 0
    /\ max_reorg_depth \in 1..MaxDepth
    /\ pc = "query_store"
    /\ store = 0
    /\ state = NoState
    /\ by_block_constraint = 0
    /\ idx = 0
    /\ max_block = 0
    /\ resolver = 0
    /\ result = <<>>
    /\ ret = NotReturned
    /\ new_state = NoState
    /\ guard_answer = "none"
    /\ calls = <<>>
    /\ engine_log = <<>>
    /\ observed = {}
    /\ reverted = {}
    /\ InitMetrics
    /\ LimitsIdle

Next ==
    \/ AdvanceHead
    \/ Reorg
    \/ QueryStore
    \/ BaselineState
    \/ ApiSchema
    \/ QueryNew
    \/ Decide
    \/ BlockConstraint
    \/ AtBlock
    \/ ExecuteQuery
    \/ LogExecution
    \/ DeploymentChanged

Spec == Init /\ [][Next]_vars

\* The guard alone, as a function of its inputs: every baseline state, every
\* state the store may report afterwards (a lower reorg_count included, which
\* the assertion is there for), every observed block, both configurations.
DeploymentStates ==
    {DeploymentState(rc, d, l) : rc \in 0..MaxReorgs, d \in 0..MaxDepth, l \in BlockNumbers}

InitGuard ==
    /\ allow_deployment_change \in BOOLEAN
    /\ head \in BlockNumbers
    /\ reorg_count \in 0..MaxReorgs
    /\ max_reorg_depth \in 0..MaxDepth
    /\ pc = "deployment_changed"
    /\ store = 1
    /\ state \in DeploymentStates
    /\ by_block_constraint = 1
    /\ idx = 2
    /\ max_block \in BlockNumbers
    /\ resolver = 0
    /\ result = <<QueryResult(1, "data")>>
    /\ ret = NotReturned
    /\ new_state = NoState
    /\ guard_answer = "none"
    /\ calls = <<>>
    /\ engine_log = result
    /\ observed = {max_block}
    /\ reverted = {}
    /\ InitMetrics
    /\ LimitsIdle

NextGuard == DeploymentChanged

SpecGuard == InitGuard /\ [][NextGuard]_vars

\* Concurrent observe calls on the one ResultSizeMetrics of the runner, no
\* execute call in progress.
InitObserve ==
    /\ allow_deployment_change = FALSE
    /\ head = 0
    /\ reorg_count = 0
    /\ max_reorg_depth = 1
    /\ pc = "done"
    /\ store = 0
    /\ state = NoState
    /\ by_block_constraint = 0
    /\ idx = 0
    /\ max_block = 0
    /\ resolver = 0
    /\ result = <<>>
    /\ ret = NotReturned
    /\ new_state = NoState
    /\ guard_answer = "none"
    /\ calls = <<>>
    /\ engine_log = <<>>
    /\ observed = {}
    /\ reverted = {}
    /\ InitMetrics
    /\ LimitsIdle

NextObserve ==
    \/ \E t \in Observers : ObserveHistogram(t)
    \/ \E t \in Observers : ObserveGet(t)
    \/ \E t \in Observers : ObserveSet(t)

SpecObserve == InitObserve /\ [][NextObserve]_vars

\* A call that starts when no other is running.
ObserveAfterAnother(t) == Quiescent /\ ObserveHistogram(t)

\* observe calls made one after another.
NextObserveSequential ==
    \/ \E t \in Observers : ObserveAfterAnother(t)
    \/ \E t \in Observers : ObserveGet(t)
    \/ \E t \in Observers : ObserveSet(t)

SpecObserveSequential == InitObserve /\ [][NextObserveSequential]_vars

\* The limits of one query through run_query or run_query_with_complexity,
\* under every configuration.
InitLimits ==
    /\ allow_deployment_change = FALSE
    /\ head = 0
    /\ reorg_count = 0
    /\ max_reorg_depth = 1
    /\ pc = "done"
    /\ store = 0
    /\ state = NoState
    /\ by_block_constraint = 0
    /\ idx = 0
    /\ max_block = 0
    /\ resolver = 0
    /\ result = <<>>
    /\ ret = NotReturned
    /\ new_state = NoState
    /\ guard_answer = "none"
    /\ calls = <<>>
    /\ engine_log = <<>>
    /\ observed = {}
    /\ reverted = {}
    /\ InitMetrics
    /\ env_vars \in EnvVars
    /\ entry = "none"
    /\ limits = NoLimits
    /\ enforced = NoLimits
    /\ lpc = "entry"

NextLimits ==
    \/ RunQuery
    \/ RunQueryWithComplexity
    \/ QueryNewLimits
    \/ ExecuteQueryLimits

SpecLimits == InitLimits /\ [][NextLimits]_vars

\* One run_subscription call, with the chain moving under it.
InitSubscription ==
    /\ allow_deployment_change \in BOOLEAN
    /\ head \in BlockNumbers
    /\ reorg_count = 0
    /\ max_reorg_depth \in 1..MaxDepth
    /\ pc = "sub_query_store"
    /\ store = 0
    /\ state = NoState
    /\ by_block_constraint = 0
    /\ idx = 0
    /\ max_block = 0
    /\ resolver = 0
    /\ result = <<>>
    /\ ret = NotReturned
    /\ new_state = NoState
    /\ guard_answer = "none"
    /\ calls = <<>>
    /\ engine_log = <<>>
    /\ observed = {}
    /\ reverted = {}
    /\ InitMetrics
    /\ LimitsIdle

NextSubscription ==
    \/ AdvanceHead
    \/ Reorg
    \/ SubQueryStore
    \/ SubApiSchema
    \/ SubQueryNew
    \/ SubDecide
    \/ SubExecute

SpecSubscription == InitSubscription /\ [][NextSubscription]_vars

\* ------------------------------------------------------------------ claims
\* The guard ran to an guard_answer.
GuardRan == guard_answer # "none"

\* The guard fetched the post-execution state and the store answered.
Fetched == GuardRan /\ ~allow_deployment_change /\ new_state # FetchError

\* C1: with allow_deployment_change unset, a successful execute returns no result that
\* observed a block reverted between the baseline capture and the guard's
\* fetch of the post state: every reverted block lies above every block a
\* partition observed.
C1_NoRevertedDataReturned ==
    (ret.tag = "Ok" /\ ~allow_deployment_change) =>
        \A b \in reverted : \A o \in observed : b > o

\* A call that succeeded although a reorg reverted the block right above one
\* a partition observed.
C1_Witness ==
    /\ ret.tag = "Ok"
    /\ ~allow_deployment_change
    /\ new_state.reorg_count > state.reorg_count
    /\ \E o \in observed : o + 1 \in reverted

\* The left-hand side of the rule of C2, on the states the guard compared.
WindowSum ==
    (new_state.reorg_count - state.reorg_count) * new_state.max_reorg_depth + max_block

WithinWindow == WindowSum <= state.latest_ethereum_block_number

\* C2 as stated: whenever the guard compared a baseline with a post state whose
\* reorg_count is not lower, it passes when the sum is within the baseline's
\* latest block and fails with DeploymentReverted otherwise.
C2_AsStated ==
    (Fetched /\ new_state.reorg_count >= state.reorg_count) =>
        IF WithinWindow THEN guard_answer = "Ok" ELSE guard_answer = "DeploymentReverted"

\* C2, amended: the rule decides the guard when the reorg_count has grown; with
\* an equal reorg_count the guard passes whatever the sum is.
C2_WindowRule ==
    (Fetched /\ new_state.reorg_count >= state.reorg_count) =>
        IF new_state.reorg_count > state.reorg_count /\ ~WithinWindow
        THEN guard_answer = "DeploymentReverted"
        ELSE guard_answer = "Ok"

\* The guard passed after a reorg with the sum exactly at the baseline's latest block.
C2_Witness ==
    /\ Fetched
    /\ new_state.reorg_count > state.reorg_count
    /\ new_state.max_reorg_depth > 0
    /\ WindowSum = state.latest_ethereum_block_number
    /\ guard_answer = "Ok"

\* The state of the deployment when the guard ran: the one it fetched, or, when
\* allow_deployment_change is set and nothing is fetched, the one the store holds.
PostState == IF allow_deployment_change THEN CurrentState ELSE new_state

\* C3: when the deployment's reorg_count at the guard equals the baseline's,
\* the guard passes, whatever the observed block and the latest block are.
C3_NoReorgPasses ==
    (GuardRan /\ PostState # FetchError /\ PostState.reorg_count = state.reorg_count) =>
        guard_answer = "Ok"

\* No reorg, and the observed block is above the baseline's latest block.
C3_Witness ==
    /\ Fetched
    /\ new_state.reorg_count = state.reorg_count
    /\ max_block > state.latest_ethereum_block_number
    /\ guard_answer = "Ok"

\* C4 as stated: in every configuration a post state with a lower reorg_count
\* makes the guard abort.
C4_AsStated ==
    (GuardRan /\ PostState # FetchError /\ PostState.reorg_count < state.reorg_count) =>
        guard_answer = "panic" /\ ret.tag = "panic"

\* C4, amended: with allow_deployment_change unset, a fetched post state with a lower
\* reorg_count makes the guard abort: execute returns nothing.
C4_LowerReorgCountAborts ==
    (Fetched /\ new_state.reorg_count < state.reorg_count) =>
        guard_answer = "panic" /\ ret.tag = "panic" /\ pc = "panicked"

\* The guard aborted on a lower reorg_count.
C4_Witness ==
    /\ Fetched
    /\ new_state.reorg_count < state.reorg_count
    /\ pc = "panicked"

\* ---- the order and number of the calls execute makes
Count(op) == Cardinality({i \in 1..Len(calls) : calls[i].op = op})

Rejected == Count("decide_reject") > 0

\* The calls that begin partition work or run the guard.
AfterAdmissionOps == {"at_block", "execute_query", "log_execution"}

\* C5: a rejection by the admission controller ends the call with the
\* controller's error, with no block resolved, no engine invocation and no
\* guard run; and in every call, block resolutions and engine invocations come
\* after the admission decision to proceed.
C5_RejectionShortCircuits ==
    /\ Rejected =>
          /\ pc = "done"
          /\ ret = Returned("Err", QueryResultsFrom("TooExpensive"))
          /\ Count("at_block") = 0
          /\ Count("execute_query") = 0
          /\ guard_answer = "none"
    /\ \A i \in 1..Len(calls) :
          calls[i].op \in AfterAdmissionOps =>
              \E j \in 1..(i - 1) : calls[j].op = "decide_proceed"

\* A rejected call.
C5_Witness == Rejected /\ pc = "done" /\ ret.tag = "Err"

\* The partition loop ran to its end.
LoopCompleted == Count("log_execution") > 0 \/ pc = "log_execution"

\* The query was validated, admitted and partitioned, and the call is over.
PartitionedAndOver == by_block_constraint >= 1 /\ pc \in {"done", "panicked"}

\* The engine was invoked once per partition, in partition order.
EngineRanAllInOrder ==
    /\ by_block_constraint >= 1
    /\ Count("execute_query") = by_block_constraint
    /\ Len(engine_log) = by_block_constraint
    /\ \A i \in 1..Len(engine_log) : engine_log[i].sel = i

AtBlockFailed ==
    pc = "done" /\ calls # <<>> /\ calls[Len(calls)].op = "at_block"

C8_AsStated == pc = "done" => Count("log_execution") = 1

\* C8, amended: a call logs the maximum observed block exactly once when its
\* partition loop completes, before the guard runs and whatever the guard
\* answers; a call that returns earlier logs nothing.
C8_LogsOnceAfterLoop ==
    /\ Count("log_execution") <= 1
    /\ GuardRan =>
          /\ Count("log_execution") = 1
          /\ \E i \in 1..Len(calls) : calls[i] = Call("log_execution", max_block)
    /\ (pc = "done" /\ ~GuardRan) => Count("log_execution") = 0
    /\ Count("log_execution") = 1 => Count("execute_query") = by_block_constraint

\* The guard failed and the call had logged.
C8_Witness ==
    /\ pc = "done"
    /\ guard_answer = "DeploymentReverted"
    /\ Count("log_execution") = 1

\* The calls that go through a store handle.
StoreOps == {"deployment_state", "api_schema", "wait_stats", "at_block", "execute_query"}

\* C10: one query_store call per execute call, and the baseline state, the
\* wait statistics, every block resolution, every engine invocation and the
\* guard's fetch go through the handle that call returned.
C10_OneHandle ==
    /\ Count("query_store") <= 1
    /\ pc # "query_store" => Count("query_store") = 1 /\ calls[1].op = "query_store"
    /\ \A i \in 1..Len(calls) :
          calls[i].op \in StoreOps => (calls[i].arg = store /\ calls[1].arg = store)

\* A call with two partitions whose guard fetched the post state.
C10_Witness ==
    /\ Fetched
    /\ by_block_constraint = 2
    /\ Count("deployment_state") = 2
    /\ Count("at_block") = 2

\* ---- ResultSizeMetrics
SetMax(S) == CHOOSE x \in S : \A y \in S : y <= x

NoObserveRunning == \A t \in Observers : opc[t] = "idle"

\* C9, the running maximum under concurrent observe calls: once the calls made
\* so far have all finished, the maximum is the largest size passed to any of
\* them.
C9_MaxIsLargestPassed ==
    (NoObserveRunning /\ passed # {}) => max_gauge = SetMax(passed)

\* C9, the other half: no step lowers the maximum.
C9_MaxNeverLowered == [][max_gauge' >= max_gauge]_vars

\* ---- query limits
\* C11, unset limits in run_query_with_complexity: once the limits of a call
\* are in force, each of max_complexity, max_depth, max_first and max_skip that
\* was passed unset is enforced at its configured value, and a call with all
\* four unset enforces what run_query enforces.
C11_UnsetTakesDefault ==
    lpc = "done" =>
        /\ limits.max_complexity = None =>
              enforced.max_complexity = env_vars.max_complexity
        /\ limits.max_depth = None => enforced.max_depth = env_vars.max_depth
        /\ limits.max_first = None => enforced.max_first = env_vars.max_first
        /\ limits.max_skip = None => enforced.max_skip = env_vars.max_skip
        /\ (entry = "run_query_with_complexity" /\ limits = NoLimits) =>
              enforced = Enforced(RunQueryLimits(env_vars), env_vars)


\* ---- run_query, run_query_with_complexity
\* The errors execute turns into a QueryResults.
RecoverableErrors ==
    {"StoreError", "SchemaError", "ValidationError", "TooExpensive",
     "BlockNotResolved", "DeploymentReverted"}

\* A QueryResults that carries one error and no data.
IsErrorPayload(q) == \E e \in RecoverableErrors : q = QueryResultsFrom(e)

\* A QueryResults made of the engine's outputs.
IsMergedPayload(q) ==
    /\ Len(q) >= 1
    /\ \A i \in 1..Len(q) : q[i].out \in EngineOutcomes

\* C12, run_query and run_query_with_complexity return a payload: a call that
\* is over has either returned a QueryResults (the merged result when execute
\* succeeded, an error-carrying one for each recoverable failure: store
\* handle, baseline state, schema, validation, admission, block resolution,
\* guard) or it has died on the guard's reorg-count assertion, and nothing
\* but that assertion ends it without a payload.
C12_AlwaysPayload ==
    /\ pc = "done" =>
          /\ ret.tag \in {"Ok", "Err"}
          /\ ret.tag = "Ok" =>
                (guard_answer = "Ok" /\ IsMergedPayload(unwrap_or_else(ret)))
          /\ ret.tag = "Err" => IsErrorPayload(unwrap_or_else(ret))
          /\ guard_answer # "Ok" => ret.tag = "Err"
    /\ pc = "panicked" =>
          /\ guard_answer = "panic"
          /\ new_state.reorg_count < state.reorg_count
    /\ pc \notin {"done", "panicked"} => ret = NotReturned

\* The schema could not be loaded and the caller got an error payload.
C12_Witness ==
    /\ pc = "done"
    /\ unwrap_or_else(ret) = QueryResultsFrom("SchemaError")

\* ---- the guard's failure
GuardFailed == guard_answer \in {"DeploymentReverted", "StoreError"}

\* C13, a failed guard discards the data: when the guard fails, execute
\* returns an error result made of the guard's error alone, and no entry of
\* the merged result is in it, whatever the partitions produced.
C13_GuardFailureDiscardsData ==
    GuardFailed =>
        /\ pc = "done"
        /\ ret = Returned("Err", QueryResultsFrom(guard_answer))
        /\ \A i \in 1..Len(ret.val), j \in 1..Len(result) : ret.val[i] # result[j]

\* Two partitions both produced data and the guard found the deployment
\* reverted.
C13_Witness ==
    /\ guard_answer = "DeploymentReverted"
    /\ Len(result) = 2
    /\ \A j \in 1..Len(result) : result[j].out = "data"

\* ---- run_subscription
SubscriptionEngineCalls == Count("execute_prepared_subscription")

\* C14, admission before the subscription engine: every invocation of the
\* subscription engine follows a decision to proceed; after a rejection the
\* engine is not invoked and the call returns
\* SubscriptionError::GraphQLError with the controller's error; and on no
\* path is the query partitioned by block constraint, a block resolved, the
\* deployment state fetched or the guard run.
C14_AdmissionBeforeSubscription ==
    /\ \A i \in 1..Len(calls) :
          calls[i].op = "execute_prepared_subscription" =>
              \E j \in 1..(i - 1) : calls[j].op = "decide_proceed"
    /\ Rejected =>
          /\ SubscriptionEngineCalls = 0
          /\ pc = "done"
          /\ ret = Returned("Err", GraphQLError("TooExpensive"))
    /\ by_block_constraint = 0
    /\ Count("at_block") = 0
    /\ Count("execute_query") = 0
    /\ Count("deployment_state") = 0
    /\ ~GuardRan

\* A subscription was rejected after a reorg of the deployment.
C14_Witness ==
    /\ Rejected
    /\ ret.val = GraphQLError("TooExpensive")
    /\ reorg_count > 0

\* ---- engine errors in the loop
EngineReturnedErrors == \E i \in 1..Len(engine_log) : engine_log[i].out = "errors"

CallOver == pc \in {"done", "panicked"}

CountUpTo(op, k) == Cardinality({i \in 1..k : calls[i].op = op})

\* C16, partitions run one after another and the guard gets the maximum:
\* each block resolution is followed by that partition's engine invocation
\* before the next resolution, the partition being resolved finds the results
\* of all earlier partitions appended, and once the loop is over the block
\* handed to the guard, max_block, is the largest block number any partition
\* was resolved to.
C16_SequentialAndMaxBlock ==
    /\ \A k \in 1..Len(calls) :
          /\ calls[k].op = "at_block" =>
                CountUpTo("at_block", k) = CountUpTo("execute_query", k) + 1
          /\ calls[k].op = "execute_query" =>
                CountUpTo("execute_query", k) = CountUpTo("at_block", k)
    /\ Count("at_block") <= Len(result) + 1
    /\ (pc \in {"log_execution", "deployment_changed"} \/ GuardRan) =>
          /\ observed # {}
          /\ max_block = SetMax(observed)

\* The guard ran after two partitions resolved to different blocks.
C16_Witness ==
    /\ GuardRan
    /\ Count("at_block") = 2
    /\ Cardinality(observed) = 2
    /\ max_block > 0

\* ---- the order of baseline, partitions and guard
\* The calls made from the admission decision to the end of the loop.
AdmissionAndLoopOps ==
    {"wait_stats", "decide_proceed", "decide_reject", "at_block", "execute_query"}

\* C17, baseline first and guard last: the one deployment_state call made
\* before any admission or partition call is the baseline capture; the
\* post-execution state is fetched at most once, as the last call of the
\* history, after every partition's engine invocation has returned; and the
\* guard has run only when no partition is left to resolve or execute.
C17_BaselineFirstGuardLast ==
    /\ \A k \in 1..Len(calls) :
          calls[k].op \in AdmissionAndLoopOps =>
              /\ CountUpTo("deployment_state", k) = 1
              /\ \E j \in 1..(k - 1) : calls[j].op = "deployment_state"
    /\ Tracking => state # NoState
    /\ Count("deployment_state") <= 2
    /\ Count("deployment_state") = 2 =>
          /\ GuardRan
          /\ calls[Len(calls)].op = "deployment_state"
    /\ GuardRan =>
          /\ by_block_constraint >= 1
          /\ Count("at_block") = by_block_constraint
          /\ Count("execute_query") = by_block_constraint
          /\ Len(result) = by_block_constraint
          /\ CallOver

\* The guard fetched the post state of a reorged deployment after both
\* partitions of a query were executed.
C17_Witness ==
    /\ Count("deployment_state") = 2
    /\ Count("execute_query") = 2
    /\ new_state.reorg_count > state.reorg_count

\* ---- the guard with allow_deployment_change set
\* C18, allow_deployment_change disables the guard: with the flag set, for
\* every baseline, observed block and state of the store, the guard answers
\* Ok without calling deployment_state, and execute returns the merged result.
C18_DisabledGuardPasses ==
    (allow_deployment_change /\ GuardRan) =>
        /\ guard_answer = "Ok"
        /\ new_state = NoState
        /\ Count("deployment_state") = 0
        /\ ret = Returned("Ok", result)
        /\ pc = "done"

\* The guard passed although the store's reorg_count was below the
\* baseline's.
C18_Witness ==
    /\ allow_deployment_change
    /\ GuardRan
    /\ reorg_count < state.reorg_count

\* ---- sequential observe calls
LastSize == AsF64(olog[Len(olog)])

\* C19, observe calls made one after another: a finished call with size y
\* has set the maximum to y when y was above the maximum the call found, and
\* left it as it was otherwise; and no bucket count of the histogram is below
\* what the latest call found.
C19_SequentialMax ==
    /\ (Quiescent /\ olog # <<>>) =>
          max_gauge = IF LastSize > osnap.max_gauge THEN LastSize ELSE osnap.max_gauge
    /\ \A n \in DOMAIN histogram.buckets :
          histogram.buckets[n] >= osnap.histogram.buckets[n]

\* A size above the maximum and then a size below it were observed.
C19_Witness ==
    /\ Quiescent
    /\ Len(olog) = 2
    /\ olog[1] > olog[2]
    /\ max_gauge = olog[1]

\* The latest two calls passed the same size, and both have finished.
ObservedTwice ==
    /\ Quiescent
    /\ Len(olog) >= 2
    /\ olog[Len(olog)] = olog[Len(olog) - 1]

\* C20 as stated: the second of two observe calls with the same size leaves
\* the ResultSizeMetrics, histogram and maximum, as the first left it.
C20_AsStated == ObservedTwice => Metrics(histogram, max_gauge) = osnap

\* C20, amended: the second of two observe calls with the same size leaves
\* the maximum as the first left it, and counts its size once more in the
\* histogram: the size's bucket and the count grow by one, the sum by the
\* size, the other buckets keep their counts.
C20_IdempotentOnMaxOnly ==
    ObservedTwice =>
        /\ max_gauge = osnap.max_gauge
        /\ histogram.count = osnap.histogram.count + 1
        /\ histogram.sum = osnap.histogram.sum + LastSize
        /\ \A n \in DOMAIN histogram.buckets :
              histogram.buckets[n] =
                  osnap.histogram.buckets[n] + (IF n = Bucket(LastSize) THEN 1 ELSE 0)

\* observe(1025) was called twice in a row.
C20_Witness ==
    /\ ObservedTwice
    /\ olog = <<1025, 1025>>
    /\ max_gauge = 1025

====
